---- MODULE Spec2Model ----
(***************************************************************************)
(* ethatomicswap: the command-line tool of cmd/ethatomicswap/main.go.      *)
(* One process = one invocation of main().  The state is the process's     *)
(* position in main/run, the values run computes, what it printed and its  *)
(* exit status.                                                            *)
(***************************************************************************)
EXTENDS Integers, Sequences, FiniteSets, TLC

VARIABLES osArgs, connectFlag, args, nArgs, cmd, connect, client,
          err, showUsage, pc, stdout, stderr, exitCode, step, outcomes,
          call, waited

vars == <<osArgs, connectFlag, args, nArgs, cmd, connect, client,
          err, showUsage, pc, stdout, stderr, exitCode, step, outcomes,
          call, waited>>

(* ------------------------------ bounds --------------------------------- *)

\* longest list of words after the command word
MaxCmdArgs == 4

\* longest wait of a call that no deadline ends, in seconds
MaxWait == 12

(* --------------------------- program constants -------------------------- *)

verify == TRUE

secretSize == 32

\* context.WithTimeout(..., 10*time.Second), in seconds
rpcTimeout == 10

(* ------------------------- command-line words --------------------------- *)

CommandNames == {"initiate", "participate", "redeem", "extractsecret", "auditcontract"}

\* words that may stand where the command is expected
CommandWords == CommandNames \cup {"bogus"}

\* words that may follow the command
ArgWords == {"x", "y", "-", "-testnet", "-bad"}

\* flags given before the command
LeadingFlags == {<<>>, <<"-testnet">>, <<"-bad">>, <<"-h">>, <<"--">>}

\* len(arg)
StrLen(w) ==
    CASE w \in {"x", "y", "-"} -> 1
      [] w = "--" -> 2
      [] w = "-h" -> 2
      [] w = "-bad" -> 4
      [] w = "bogus" -> 5
      [] w = "redeem" -> 6
      [] w \in {"initiate", "-testnet"} -> 8
      [] w = "participate" -> 11
      [] w \in {"extractsecret", "auditcontract"} -> 13

\* strings.HasPrefix(arg, "-")
HasDashPrefix(w) == w \in {"-", "--", "-h", "-bad", "-testnet"}

\* the flags the flag set defines that take no value
BoolFlags == {"-testnet"}

\* flag.FlagSet.Parse on a flag set made with flag.ExitOnError: the words
\* left after the flags, or the way Parse ends the process
RECURSIVE flagsetParse(_)
flagsetParse(a) ==
    IF a = <<>> THEN [status |-> "ok", rest |-> <<>>]
    ELSE LET s == Head(a) IN
         IF StrLen(s) < 2 \/ ~HasDashPrefix(s) THEN [status |-> "ok", rest |-> a]
         ELSE IF s = "--" THEN [status |-> "ok", rest |-> Tail(a)]
         ELSE IF s \in BoolFlags THEN flagsetParse(Tail(a))
         ELSE IF s = "-h" THEN [status |-> "help", rest |-> <<>>]
         ELSE [status |-> "undefined", rest |-> <<>>]

\* exit status of flag.ExitOnError on -h: 2 before Go 1.15, 0 since
HelpExitCodes == {0, 2}

\* the switch with the participate case counting two arguments
cmdArgsParticipateTwo(c) ==
    CASE c = "initiate" -> 2
      [] c = "participate" -> 2
      [] c = "redeem" -> 3
      [] c = "extractsecret" -> 2
      [] c = "auditcontract" -> 2

\* the switch of run that sets cmdArgs
cmdArgs(c) ==
    CASE c = "initiate" -> 2
      [] c = "participate" -> 3
      [] c = "redeem" -> 3
      [] c = "extractsecret" -> 2
      [] c = "auditcontract" -> 2

\* the test without its length condition
FlagLikeAnyDash(w) == HasDashPrefix(w)

\* checkCmdArgLength: len(arg) != 1 && strings.HasPrefix(arg, "-")
FlagLike(w) == StrLen(w) # 1 /\ HasDashPrefix(w)

checkCmdArgLength(a, required) ==
    IF Len(a) < required THEN 0
    ELSE LET flagged == {i \in 1..required : FlagLike(a[i])} IN
         IF flagged = {} THEN required
         ELSE (CHOOSE i \in flagged : \A j \in flagged : i <= j) - 1

\* the second switch of run: the command value bound to the name
bindCommand(c) == IF c = "initiate" THEN "initiateCmd" ELSE "nil"

(* ----------------------------- addresses -------------------------------- *)
\* An address is a sequence of characters; "h" stands for a host letter,
\* "1" for a digit, "8545" for the default port, "http://" for the scheme.

walletPort(params) ==
    CASE params = "testnet" -> <<"8545">>
      [] params = "mainnet" -> <<"8545">>
      [] OTHER -> <<"8545">>

IndexSet(s, ch) == {i \in 1..Len(s) : s[i] = ch}

Min(S) == CHOOSE i \in S : \A j \in S : i <= j
Max(S) == CHOOSE i \in S : \A j \in S : i >= j

\* net.SplitHostPort
SplitHostPort(hostport) ==
    LET colons == IndexSet(hostport, ":")
        bad == [ok |-> FALSE, host |-> <<>>, port |-> <<>>]
    IN IF colons = {} THEN bad
       ELSE LET i == Max(colons) IN
            IF hostport[1] = "["
            THEN LET closes == IndexSet(hostport, "]") IN
                 IF closes = {} THEN bad
                 ELSE LET end == Min(closes) IN
                      IF end + 1 # i THEN bad
                      ELSE IF IndexSet(SubSeq(hostport, 2, Len(hostport)), "[") # {} THEN bad
                      ELSE IF IndexSet(SubSeq(hostport, end + 1, Len(hostport)), "]") # {} THEN bad
                      ELSE [ok |-> TRUE, host |-> SubSeq(hostport, 2, end - 1),
                            port |-> SubSeq(hostport, i + 1, Len(hostport))]
            ELSE IF IndexSet(SubSeq(hostport, 1, i - 1), ":") # {} THEN bad
            ELSE IF IndexSet(hostport, "[") # {} THEN bad
            ELSE IF IndexSet(hostport, "]") # {} THEN bad
            ELSE [ok |-> TRUE, host |-> SubSeq(hostport, 1, i - 1),
                  port |-> SubSeq(hostport, i + 1, Len(hostport))]

\* net.JoinHostPort
JoinHostPort(host, port) ==
    IF IndexSet(host, ":") # {} THEN <<"[">> \o host \o <<"]", ":">> \o port
    ELSE host \o <<":">> \o port

normalizeAddress(addr, defaultPort) ==
    LET orig == SplitHostPort(addr) IN
    IF orig.ok THEN [ok |-> TRUE, hostport |-> JoinHostPort(orig.host, orig.port)]
    ELSE LET joined == JoinHostPort(addr, defaultPort) IN
         IF ~SplitHostPort(joined).ok THEN [ok |-> FALSE, hostport |-> <<>>]
         ELSE [ok |-> TRUE, hostport |-> <<"http://">> \o joined]

\* rpc.Dial: the transport is chosen by the URL scheme; a host:port without
\* a scheme names no known transport
rpcDial(url) == url # <<>> /\ url[1] = "http://"

\* values of the -s flag
ConnectFlags == { <<"h">>, <<"h", ":", "1">>, <<"[", "h">>, <<"h", ":", "1", ":", "1">> }

(* ------------------------------ the state ------------------------------- *)

RECURSIVE SeqsUpTo(_, _)
SeqsUpTo(S, n) ==
    IF n = 0 THEN {<<>>}
    ELSE LET shorter == SeqsUpTo(S, n - 1) IN
         shorter \cup {Append(s, w) : s \in {t \in shorter : Len(t) = n - 1}, w \in S}

\* os.Args[1:]
CommandLines ==
    {f : f \in LeadingFlags} \cup
    {f \o <<c>> \o a : f \in LeadingFlags, c \in CommandWords, a \in SeqsUpTo(ArgWords, MaxCmdArgs)}

\* the state of a process that has just started
Fresh(line, s) ==
    /\ osArgs = line
    /\ connectFlag = s
    /\ args = <<>>
    /\ nArgs = 0
    /\ cmd = "none"
    /\ connect = <<>>
    /\ client = "none"
    /\ err = "nil"
    /\ showUsage = FALSE
    /\ pc = "parse"
    /\ stdout = {}
    /\ stderr = {}
    /\ exitCode = -1
    /\ call = "none"
    /\ waited = 0

Init ==
    /\ \E line \in CommandLines, s \in ConnectFlags : Fresh(line, s)
    /\ step = 0
    /\ outcomes = <<>>

(* ------------------------------ the steps ------------------------------- *)

\* os.Exit(code) from any point of the process
Exit(code) == /\ pc' = "exited" /\ exitCode' = code

\* return err, showUsage from run to main
Return(e, u) == /\ pc' = "main" /\ err' = e /\ showUsage' = u

\* run: flagset.Parse(os.Args[1:]); args := flagset.Args()
ParseFlags ==
    /\ pc = "parse"
    /\ LET r == flagsetParse(osArgs) IN
       IF r.status = "ok"
       THEN /\ args' = r.rest
            /\ pc' = "command"
            /\ UNCHANGED <<stdout, stderr, exitCode>>
       ELSE /\ stdout' = stdout \cup {"usage"}
            /\ stderr' = stderr \cup {IF r.status = "help" THEN "help" ELSE "flag provided but not defined"}
            /\ \E code \in (IF r.status = "help" THEN HelpExitCodes ELSE {2}) : Exit(code)
            /\ UNCHANGED args
    /\ UNCHANGED <<osArgs, connectFlag, nArgs, cmd, connect, client, err, showUsage, step, outcomes, call, waited>>

\* run: no command, or the first switch on args[0]
SelectCommand ==
    /\ pc = "command"
    /\ IF Len(args) = 0 THEN Return("nil", TRUE)
       ELSE IF args[1] \notin CommandNames THEN Return("unknown command", TRUE)
       ELSE /\ pc' = "arguments"
            /\ UNCHANGED <<err, showUsage>>
    /\ UNCHANGED <<osArgs, connectFlag, args, nArgs, cmd, connect, client, stdout, stderr, exitCode, step, outcomes, call, waited>>

\* run: checkCmdArgLength, the second flagset.Parse, and the two argument checks
CheckArguments ==
    /\ pc = "arguments"
    /\ LET n == checkCmdArgLength(Tail(args), cmdArgs(args[1]))
           r == flagsetParse(SubSeq(args, 2 + n, Len(args)))
       IN /\ nArgs' = n
          /\ IF r.status # "ok"
             THEN /\ stdout' = stdout \cup {"usage"}
                  /\ stderr' = stderr \cup {IF r.status = "help" THEN "help" ELSE "flag provided but not defined"}
                  /\ \E code \in (IF r.status = "help" THEN HelpExitCodes ELSE {2}) : Exit(code)
                  /\ UNCHANGED <<err, showUsage>>
             ELSE /\ IF n < cmdArgs(args[1]) THEN Return("too few arguments", TRUE)
                     ELSE IF Len(r.rest) # 0 THEN Return("unexpected argument", TRUE)
                     ELSE /\ pc' = "bind"
                          /\ UNCHANGED <<err, showUsage>>
                  /\ UNCHANGED <<stdout, stderr, exitCode>>
    /\ UNCHANGED <<osArgs, connectFlag, args, cmd, connect, client, step, outcomes, call, waited>>

\* run: var cmd command; switch args[0]
BindCommand ==
    /\ pc = "bind"
    /\ cmd' = bindCommand(args[1])
    /\ pc' = "normalize"
    /\ UNCHANGED <<osArgs, connectFlag, args, nArgs, connect, client, err, showUsage, stdout, stderr, exitCode, step, outcomes, call, waited>>

\* run: connect, err := normalizeAddress(*connectFlag, walletPort("mainnet"))
Normalize ==
    /\ pc = "normalize"
    /\ LET r == normalizeAddress(connectFlag, walletPort("mainnet")) IN
       IF ~r.ok THEN /\ Return("geth server address", TRUE)
                     /\ UNCHANGED connect
       ELSE /\ connect' = r.hostport
            /\ pc' = "dial"
            /\ UNCHANGED <<err, showUsage>>
    /\ UNCHANGED <<osArgs, connectFlag, args, nArgs, cmd, client, stdout, stderr, exitCode, step, outcomes, call, waited>>

\* run: client, err := rpc.Dial(connect)
Dial ==
    /\ pc = "dial"
    /\ IF ~rpcDial(connect) THEN /\ Return("rpc connect", FALSE)
                                 /\ UNCHANGED client
       ELSE /\ client' = "open"
            /\ pc' = "run"
            /\ UNCHANGED <<err, showUsage>>
    /\ UNCHANGED <<osArgs, connectFlag, args, nArgs, cmd, connect, stdout, stderr, exitCode, step, outcomes, call, waited>>

\* run: err = cmd.runCommand(context.Background(), client).  A method call
\* on the nil interface value panics; the deferred client.Close() runs and
\* the runtime ends the process with status 2.
RunCommand ==
    /\ pc = "run"
    /\ IF cmd = "nil"
       THEN /\ client' = "closed"
            /\ stderr' = stderr \cup {"panic: nil pointer dereference"}
            /\ Exit(2)
            /\ UNCHANGED call
       ELSE /\ pc' = "call"
            /\ call' = "inflight"
            /\ UNCHANGED <<client, stderr, exitCode>>
    /\ UNCHANGED <<osArgs, connectFlag, args, nArgs, cmd, connect, err, showUsage, stdout, step, outcomes, waited>>

\* what c.CallContext(ctx, &lastBlock, "eth_getBlockByNumber", ...) returns
\* within the deadline of ctx
CallResults == {"ok", "rpc error", "context deadline exceeded"}

\* the call made under the context passed by run, context.Background()
ctxBackground == FALSE

\* initiateCmd.runCommand makes its call under
\* context.WithTimeout(context.Background(), 10*time.Second)
ctxHasDeadline == TRUE

\* a second passes while the call is in flight; the context ends the call
\* when its deadline is reached
Tick ==
    /\ pc = "call"
    /\ call = "inflight"
    /\ waited < MaxWait
    /\ ctxHasDeadline => waited < rpcTimeout
    /\ waited' = waited + 1
    /\ UNCHANGED <<osArgs, connectFlag, args, nArgs, cmd, connect, client, err, showUsage,
                   pc, stdout, stderr, exitCode, step, outcomes, call>>

\* initiateCmd.runCommand, then the return of run and its deferred Close
InitiateRunCommand ==
    /\ pc = "call"
    /\ cmd = "initiateCmd"
    /\ \E res \in CallResults :
         /\ (res = "context deadline exceeded") => (ctxHasDeadline /\ waited = rpcTimeout)
         /\ call' = (IF res = "ok" THEN "replied"
                     ELSE IF res = "rpc error" THEN "failed" ELSE "cancelled")
         /\ IF res # "ok"
            THEN /\ stderr' = stderr \cup {"can't get latest block"}
                 /\ Return(res, FALSE)
                 /\ UNCHANGED stdout
            ELSE /\ stdout' = stdout \cup {"lastBlock.Number", "lastBlock.Hash"}
                 /\ Return("nil", FALSE)
                 /\ UNCHANGED stderr
    /\ client' = "closed"
    /\ UNCHANGED <<osArgs, connectFlag, args, nArgs, cmd, connect, exitCode, step, outcomes, waited>>

\* main, after run has returned
Main ==
    /\ pc = "main"
    /\ stderr' = IF err # "nil" THEN stderr \cup {err} ELSE stderr
    /\ stdout' = IF showUsage THEN stdout \cup {"usage"} ELSE stdout
    /\ Exit(IF err # "nil" \/ showUsage THEN 1 ELSE 0)
    /\ UNCHANGED <<osArgs, connectFlag, args, nArgs, cmd, connect, client, err, showUsage, step, outcomes, call, waited>>

Next ==
    \/ ParseFlags
    \/ SelectCommand
    \/ CheckArguments
    \/ BindCommand
    \/ Normalize
    \/ Dial
    \/ RunCommand
    \/ Tick
    \/ InitiateRunCommand
    \/ Main

Spec == Init /\ [][Next]_vars

(* --------------------- a swap, invocation by invocation ----------------- *)
\* Scenario 1 of the comment above init(), with the audit and extraction
\* steps of the command list: each entry is the command line of one
\* invocation, in the order the two parties run them.
Scenario1 ==
    << <<"initiate", "x", "y">>,
       <<"auditcontract", "x", "y">>,
       <<"participate", "x", "y", "x">>,
       <<"auditcontract", "x", "y">>,
       <<"redeem", "x", "y", "x">>,
       <<"extractsecret", "y", "x">>,
       <<"redeem", "x", "y", "x">> >>

InitSwap ==
    /\ \E s \in ConnectFlags : Fresh(Scenario1[1], s)
    /\ step = 1
    /\ outcomes = <<>>

\* the process has ended; the party whose turn it is starts the next one
NextInvocation ==
    /\ pc = "exited"
    /\ step \in 1..Len(Scenario1)
    /\ outcomes' = Append(outcomes, [code |-> exitCode, out |-> stdout, errs |-> stderr])
    /\ step' = step + 1
    /\ IF step < Len(Scenario1)
       THEN /\ osArgs' = Scenario1[step + 1]
            /\ connectFlag' \in ConnectFlags
            /\ args' = <<>>
            /\ nArgs' = 0
            /\ cmd' = "none"
            /\ connect' = <<>>
            /\ client' = "none"
            /\ err' = "nil"
            /\ showUsage' = FALSE
            /\ pc' = "parse"
            /\ stdout' = {}
            /\ stderr' = {}
            /\ exitCode' = -1
            /\ call' = "none"
            /\ waited' = 0
       ELSE /\ pc' = "done"
            /\ UNCHANGED <<osArgs, connectFlag, args, nArgs, cmd, connect, client,
                           err, showUsage, stdout, stderr, exitCode, call, waited>>

NextSwap == Next \/ NextInvocation

SpecSwap == InitSwap /\ [][NextSwap]_vars

(* ------------------------------ properties ------------------------------ *)

\* the command word of the invocation, once the leading flags are parsed
Command == IF args = <<>> THEN "none" ELSE args[1]

\* the invocation passed every argument check and its command was executed
Executed(c) == Command = c /\ cmd # "none" /\ client # "none"

\* C1: every invocation ends with exit status 0 or 1, 0 exactly when the
\* command succeeded, and the usage text is printed whenever the arguments
\* are missing or invalid.
C1_ExitStatus ==
    pc = "exited" =>
        /\ exitCode \in {0, 1}
        /\ (exitCode = 0) <=> (err = "nil" /\ ~showUsage /\ client = "closed")
        /\ showUsage => "usage" \in stdout

\* C2: no accepted command reaches the run step (cmd.runCommand) without a
\* protocol operation bound to it.
C2_CommandBound == pc = "run" => cmd # "nil"

\* C3: a successful initiate emits the Contract it built together with the
\* amount.
C3_InitiateEmitsContract ==
    (pc = "exited" /\ exitCode = 0 /\ Command = "initiate") =>
        {"Contract", "amount"} \subseteq stdout

\* The words x and y name values: the contract named w embeds the hash of
\* the secret named w.
SecretMatches(contractWord, secretWord) == contractWord = secretWord

\* C7: a redeem whose secret does not hash to the contract's SecretHash
\* fails with SecretMismatch and constructs no redemption transaction.
C7_RedeemSecretMismatch ==
    (pc = "exited" /\ Executed("redeem") /\ ~SecretMatches(args[2], args[4])) =>
        /\ exitCode = 1
        /\ "SecretMismatch" \in stderr
        /\ "RedemptionTransaction" \notin stdout

\* C8: participate builds and emits a Contract (on the given secret hash,
\* with the roles reversed and the earlier locktime).
C8_ParticipateContract ==
    (pc = "exited" /\ Executed("participate")) =>
        (exitCode = 0 /\ "Contract" \in stdout)

\* errors of the chain collaborator, not of the tool
NetworkErrors == {"rpc connect", "rpc error", "context deadline exceeded", "geth server address"}

\* the first k invocations of the swap met no network error
NoNetworkError(k) == \A i \in 1..k : outcomes[i].errs \cap NetworkErrors = {}

\* C9: in the full swap both redemptions succeed and the extraction outputs
\* the secret (steps 5 and 7 are the redemptions, step 6 the extraction).
C9_SwapCompletes ==
    \A k \in {5, 6, 7} :
        (Len(outcomes) >= k /\ NoNetworkError(k)) =>
            /\ outcomes[k].code = 0
            /\ (k = 6 => "Secret" \in outcomes[k].out)

\* protocol errors of the error taxonomy, as opposed to network errors
ProtocolErrors == {"InvalidParameter", "MalformedContract", "AmountMismatch", "AddressMismatch",
                   "SecretMismatch", "LocktimeNotElapsed", "SecretNotFound"}

\* C11: the RPC call of a command is made under a deadline and never waits
\* longer than it; when the deadline passes the call is cancelled and the
\* command ends with status 1 on a timeout error, which is a network error
\* and no protocol error.
C11_CallBounded ==
    /\ pc = "call" => (call = "inflight" /\ waited <= rpcTimeout)
    /\ call = "cancelled" =>
          /\ waited = rpcTimeout
          /\ pc \in {"main", "exited", "done"}
          /\ err = "context deadline exceeded"
          /\ err \in NetworkErrors /\ err \notin ProtocolErrors
          /\ pc = "exited" => (exitCode = 1 /\ err \in stderr /\ stderr \cap ProtocolErrors = {})

\* the deadline passed during the call and the command has ended
C11_TimedOut == pc = "exited" /\ call = "cancelled" /\ waited = rpcTimeout

\* the errors an audit may fail with
AuditErrors == {"MalformedContract", "AddressMismatch", "AmountMismatch"}

\* C13: an auditcontract that was executed either succeeds and reports the
\* audit result, or fails with MalformedContract, AddressMismatch or
\* AmountMismatch; it does nothing but report.
C13_AuditReports ==
    (pc = "exited" /\ Executed("auditcontract")) =>
        \/ exitCode = 0 /\ "AuditResult" \in stdout
        \/ exitCode = 1 /\ stderr \cap AuditErrors # {}

\* C14: an extractsecret that was executed either outputs the secret found
\* in the redemption transaction or fails with SecretNotFound.
C14_ExtractSecret ==
    (pc = "exited" /\ Executed("extractsecret")) =>
        \/ exitCode = 0 /\ "Secret" \in stdout
        \/ exitCode = 1 /\ "SecretNotFound" \in stderr

\* the number of arguments the usage text lists for each command
UsageArgs(c) ==
    CASE c = "initiate" -> 2
      [] c \in {"participate", "redeem"} -> 3
      [] c \in {"extractsecret", "auditcontract"} -> 2

\* the errors run returns for the command line itself
ArgumentErrors == {"unknown command", "too few arguments", "unexpected argument"}

\* C17: the server is dialed and the command executed only when the command
\* name is known, its arguments are all present and nothing but flags
\* follows them; every argument error (and a missing command) returns with
\* the usage flag set and before any connection is attempted.
C17_DialAfterArguments ==
    /\ (pc \in {"dial", "run", "call"} \/ client # "none") =>
          /\ Command \in CommandNames
          /\ Len(args) >= 1 + UsageArgs(Command)
          /\ \A i \in 2..(1 + UsageArgs(Command)) :
                ~(HasDashPrefix(args[i]) /\ StrLen(args[i]) > 1)
          /\ \A i \in (2 + UsageArgs(Command))..Len(args) : args[i] \in BoolFlags
    /\ (pc = "main" /\ (err \in ArgumentErrors \/ Command = "none")) =>
          /\ showUsage
          /\ client = "none"
          /\ connect = <<>>
          /\ call = "none"

\* an accepted command line, with a flag after its arguments, is being run
C17_Running ==
    /\ pc = "run"
    /\ client = "open"
    /\ Len(args) > 1 + UsageArgs(Command)

\* run has called checkCmdArgLength and stored its result in nArgs
ArgsCounted == pc \notin {"parse", "command", "arguments"} /\ Command \in CommandNames

\* a word that starts with '-' and has a length other than 1
DashWord(w) == HasDashPrefix(w) /\ StrLen(w) # 1

\* nArgs is what the description of checkCmdArgLength gives for the words a
\* and the count required
ArgLengthAsDescribed(a, required) ==
    /\ (nArgs = required) <=> (Len(a) >= required /\ \A i \in 1..required : ~DashWord(a[i]))
    /\ Len(a) < required => nArgs = 0
    /\ (Len(a) >= required /\ \E i \in 1..required : DashWord(a[i])) =>
          /\ nArgs < required
          /\ DashWord(a[nArgs + 1])
          /\ \A j \in 1..nArgs : ~DashWord(a[j])

\* the flag package ended the process while parsing
FlagExit == stderr \cap {"help", "flag provided but not defined"} # {}

C19_NormalizedIsHttpURL ==
    pc = "dial" =>
        /\ Head(connect) = "http://"
        /\ rpcDial(connect)
        /\ LET given == SplitHostPort(connectFlag)
               result == SplitHostPort(Tail(connect))
           IN /\ result.ok
              /\ result.port = (IF given.ok THEN given.port ELSE walletPort("mainnet"))

====
